---- MODULE Spec2Model ----
(***************************************************************************)
(* expose-pixi-apps (src/src/main.py): clone a pixi project, install it,   *)
(* capture the environment of `pixi shell-hook --json`, and publish one    *)
(* trampoline configuration file plus one hard link per executable name.   *)
(*                                                                         *)
(* Strings are sequences of tokens.  A token is one character, or a run of *)
(* characters whose inside no operation of the program looks at ("bin",    *)
(* "trampoline_configuration", ".json").  The tokens "/", "." and ":" are  *)
(* always single characters, so splitting, prefix and suffix tests are     *)
(* computed on strings the way Python computes them.                       *)
(***************************************************************************)
EXTENDS Integers, Sequences, FiniteSets, TLC

VARIABLES
    dirs,          \* directories that exist (resolved locations)
    fs,            \* directory entries of regular files: location -> inode
    data,          \* inode -> file content
    pc,            \* per invocation: the statement of main()/expose_entry() it is at
    osenv,         \* per invocation: os.environ (INPUT_* and PATH), read-only
    pixi_out,      \* per invocation: what `pixi shell-hook --json` prints for the project
    entry,         \* per invocation: the dict parse_input returned
    environment,   \* per invocation: expose_entry's local `environment`
    env_vars,      \* per invocation: hook['environment_variables'], an ordered dict
    conda_prefix,  \* per invocation: expose_entry's local `conda_prefix`
    path_diff,     \* per invocation: expose_entry's local `path_diff`
    filtered_env,  \* per invocation: expose_entry's local `filtered_env`
    i,             \* per invocation: index of `app` in entry['apps'] (the for loop)
    fd,            \* per invocation: the inode write_text has open
    err,           \* per invocation: the exception that ended it, if any
    hist,          \* history: per invocation, the stages that completed, in order
    ops,           \* history: every filesystem operation of the publisher, in order
    snap,          \* history: per invocation, fs/data when expose_entry was entered
    pending,       \* per invocation: the inputs of the runs still to come
    prev           \* history: per invocation, the inputs and outcome of the last run

vars == <<dirs, fs, data, pc, osenv, pixi_out, entry, environment, env_vars,
          conda_prefix, path_diff, filtered_env, i, fd, err, hist, ops, snap,
          pending, prev>>

locals == <<entry, environment, env_vars, conda_prefix, path_diff, filtered_env, i, fd>>

(***************************************************************************)
(* Bounds                                                                  *)
(***************************************************************************)
\* longest PATH-like string explored by the PATH-diff specification
MaxPathLen == 4
\* longest apps list explored
MaxApps == 2

(***************************************************************************)
(* Strings                                                                 *)
(***************************************************************************)
Procs == {"p1", "p2"}

\* str.startswith
StartsWith(s, p) == Len(p) <= Len(s) /\ SubSeq(s, 1, Len(p)) = p

\* str.endswith
EndsWith(s, suf) ==
    Len(suf) <= Len(s) /\ SubSeq(s, Len(s) - Len(suf) + 1, Len(s)) = suf

\* s[:n] for 0 <= n <= len(s)
Take(s, n) == SubSeq(s, 1, n)

RECURSIVE Split(_, _)
\* str.split(sep) for a one-character sep: every segment, the empty ones included
Split(s, sep) ==
    IF \A k \in 1..Len(s) : s[k] # sep
    THEN <<s>>
    ELSE LET k == CHOOSE n \in 1..Len(s) : s[n] = sep /\ \A m \in 1..(n-1) : s[m] # sep
         IN  <<SubSeq(s, 1, k - 1)>> \o Split(SubSeq(s, k + 1, Len(s)), sep)

RECURSIVE Join(_, _)
\* sep.join(segs)
Join(segs, sep) ==
    IF segs = <<>> THEN <<>>
    ELSE IF Len(segs) = 1 THEN segs[1]
    ELSE segs[1] \o <<sep>> \o Join(Tail(segs), sep)

NonEmpty(seg) == seg # <<>>

\* os.pathsep on the supported platforms (win32 is rejected by main)
pathsep == ":"

(***************************************************************************)
(* pathlib.PurePosixPath                                                   *)
(***************************************************************************)
RECURSIVE LeadingSlashes(_)
LeadingSlashes(s) ==
    IF s # <<>> /\ Head(s) = "/" THEN 1 + LeadingSlashes(Tail(s)) ELSE 0

\* the root pathlib keeps: exactly two leading slashes stay "//", any other
\* positive number collapses to "/"
PathRoot(s) ==
    LET n == LeadingSlashes(s)
    IN  IF n = 0 THEN <<>> ELSE IF n = 2 THEN <<"/", "/">> ELSE <<"/">>

KeptPart(seg) == seg # <<>> /\ seg # <<".">>

\* Path(s): empty and "." components are dropped, ".." is kept
Path(s) == [root |-> PathRoot(s), parts |-> SelectSeq(Split(s, "/"), KeptPart)]

\* p / s  (an absolute right operand replaces the left one)
PathDiv(p, s) ==
    IF PathRoot(s) # <<>> THEN Path(s)
    ELSE [root |-> p.root, parts |-> p.parts \o Path(s).parts]

\* str(p)
PathStr(p) ==
    IF p.root = <<>> /\ p.parts = <<>> THEN <<".">>
    ELSE p.root \o Join(p.parts, "/")

(***************************************************************************)
(* Python values                                                           *)
(***************************************************************************)
\* an optional value: None, or the value v
None == [none |-> TRUE, v |-> <<>>]
Some(v) == [none |-> FALSE, v |-> v]

\* `not x` for x a string or None
Falsy(x) == x.none \/ x.v = <<>>

\* d.get(k, default) for an ordered dict d: a sequence of <<key, value>> pairs
\* with distinct keys, in insertion order
DictGet(d, k, default) ==
    IF \E n \in 1..Len(d) : d[n][1] = k
    THEN d[CHOOSE n \in 1..Len(d) : d[n][1] = k][2]
    ELSE default

\* d.get(k): None when k is not a key
DictGetOpt(d, k) ==
    IF \E n \in 1..Len(d) : d[n][1] = k
    THEN Some(d[CHOOSE n \in 1..Len(d) : d[n][1] = k][2])
    ELSE None

DictKeys(d) == {d[n][1] : n \in 1..Len(d)}

\* os.environ.get(k, default): os.environ is a function on the names that are set
EnvGet(e, k, default) == IF k \in DOMAIN e THEN e[k] ELSE default

\* yaml.safe_load on the documents explored.  A document is [k, v]:
\* "seq" (v its items), "scalar", "null", "map", or "bad" (not YAML: the
\* library raises).  The empty string is [k |-> "empty"] and is never loaded.
YamlLoad(doc) ==
    CASE doc.k = "seq"    -> [t |-> "list", v |-> doc.v]
      [] doc.k = "scalar" -> [t |-> "str", v |-> <<>>]
      [] doc.k = "map"    -> [t |-> "dict", v |-> <<>>]
      [] doc.k = "bad"    -> [t |-> "raise", v |-> <<>>]
      [] OTHER            -> [t |-> "NoneType", v |-> <<>>]

EmptyDoc == [k |-> "empty", v |-> <<>>]

(***************************************************************************)
(* Variable names and the layout under PIXI_HOME                           *)
(***************************************************************************)
K_PATH == <<"P", "A", "T", "H">>
K_CONDA_PREFIX == <<"C", "O", "N", "D", "A", "_", "P", "R", "E", "F", "I", "X">>

_EXCLUDE_EXACT == {K_PATH}
_EXCLUDE_PREFIXES == {<<"P", "I", "X", "I", "_">>}

\* get_pixi_home(): PIXI_HOME of the invoking process
get_pixi_home == Path(<<"/", "h">>)

bin_dir == PathDiv(get_pixi_home, <<"bin">>)

config_dir == PathDiv(bin_dir, <<"trampoline_configuration">>)

get_trampoline_bin ==
    PathDiv(PathDiv(PathDiv(get_pixi_home, <<"bin">>), <<"trampoline_configuration">>),
            <<"trampoline_bin">>)

(***************************************************************************)
(* The filesystem: F = [dirs, fs, data]                                    *)
(*   a location is the sequence of components of a resolved absolute path  *)
(***************************************************************************)
DotDot == <<".", ".">>

Parent(loc) == IF loc = <<>> THEN <<>> ELSE SubSeq(loc, 1, Len(loc) - 1)

RECURSIVE Walk(_, _, _)
\* the kernel's path walk: every component but the last is looked up in a
\* directory; ".." goes to the parent (no symbolic links in this layout)
Walk(F, cur, parts) ==
    IF parts = <<>> THEN [st |-> "ok", loc |-> cur]
    ELSE IF cur \in DOMAIN F.fs THEN [st |-> "ENOTDIR", loc |-> cur]
    ELSE IF cur \notin F.dirs THEN [st |-> "ENOENT", loc |-> cur]
    ELSE Walk(F, IF Head(parts) = DotDot THEN Parent(cur) ELSE Append(cur, Head(parts)),
              Tail(parts))

Resolve(F, p) == Walk(F, <<>>, p.parts)

\* the inode a file created at loc gets
Ino(loc) == <<"ino", loc>>

\* the inode of the dispatch binary pixi installed
TrampIno == Ino(<<<<"trampoline-inode">>>>)

\* file contents: nothing, the dispatch binary, or one JSON record (torn when
\* bytes of another record are left in the file)
Empty == [kind |-> "empty", rec |-> <<>>, torn |-> FALSE]
Elf == [kind |-> "elf", rec |-> <<>>, torn |-> FALSE]
Json(rec, torn) == [kind |-> "json", rec |-> rec, torn |-> torn]

\* no open file
NoFd == Ino(<<>>)

Exists(F, loc) == loc \in DOMAIN F.fs \/ loc \in F.dirs

\* open(path, 'w'): O_CREAT | O_TRUNC.  Returns the new filesystem, the inode
\* opened and the exception raised ("none" when it succeeds).
OpenW(F, p) ==
    LET r == Resolve(F, p) IN
    IF r.st = "ENOENT" THEN [F |-> F, fd |-> NoFd, exc |-> "FileNotFoundError"]
    ELSE IF r.st = "ENOTDIR" THEN [F |-> F, fd |-> NoFd, exc |-> "NotADirectoryError"]
    ELSE IF r.loc \in F.dirs THEN [F |-> F, fd |-> NoFd, exc |-> "IsADirectoryError"]
    ELSE IF r.loc \in DOMAIN F.fs
         THEN [F |-> [F EXCEPT !.data[F.fs[r.loc]] = Empty],
               fd |-> F.fs[r.loc], exc |-> "none"]
         ELSE [F |-> [F EXCEPT !.fs = (r.loc :> Ino(r.loc)) @@ @,
                               !.data = (Ino(r.loc) :> Empty) @@ @],
               fd |-> Ino(r.loc), exc |-> "none"]

\* f.write(text) at offset 0 of the opened inode: over an empty file the
\* record is the whole content; over bytes another writer put there since the
\* truncation, bytes of the other record may remain behind it (tornOutcome)
WriteFd(F, ino, rec, tornOutcome) ==
    [F EXCEPT !.data[ino] =
        Json(rec, IF F.data[ino].kind = "empty" THEN FALSE ELSE tornOutcome)]

\* Path.unlink(missing_ok=True)
Unlink(F, p) ==
    LET r == Resolve(F, p) IN
    IF r.st = "ENOENT" THEN [F |-> F, exc |-> "none"]
    ELSE IF r.st = "ENOTDIR" THEN [F |-> F, exc |-> "NotADirectoryError"]
    ELSE IF r.loc \in F.dirs THEN [F |-> F, exc |-> "IsADirectoryError"]
    ELSE IF r.loc \notin DOMAIN F.fs THEN [F |-> F, exc |-> "none"]
    ELSE [F |-> [F EXCEPT !.fs = [l \in (DOMAIN F.fs) \ {r.loc} |-> F.fs[l]]],
          exc |-> "none"]

\* os.link(src, dst)
Link(F, src, dst) ==
    LET s == Resolve(F, src)
        d == Resolve(F, dst)
    IN  IF s.st # "ok" \/ s.loc \notin DOMAIN F.fs
        THEN [F |-> F, exc |-> IF s.st = "ok" /\ s.loc \in F.dirs
                               THEN "PermissionError" ELSE "FileNotFoundError"]
        ELSE IF d.st = "ENOENT" THEN [F |-> F, exc |-> "FileNotFoundError"]
        ELSE IF d.st = "ENOTDIR" THEN [F |-> F, exc |-> "NotADirectoryError"]
        ELSE IF Exists(F, d.loc) THEN [F |-> F, exc |-> "FileExistsError"]
        ELSE [F |-> [F EXCEPT !.fs = (d.loc :> F.fs[s.loc]) @@ @], exc |-> "none"]

RECURSIVE Ancestors(_)
Ancestors(loc) == IF loc = <<>> THEN {<<>>} ELSE {loc} \cup Ancestors(Parent(loc))

\* Path.mkdir(parents=True, exist_ok=True) of a path without ".."
MkdirP(F, p) ==
    IF \E a \in Ancestors(p.parts) : a \in DOMAIN F.fs
    THEN [F |-> F, exc |-> "FileExistsError"]
    ELSE [F |-> [F EXCEPT !.dirs = @ \cup Ancestors(p.parts)], exc |-> "none"]

(***************************************************************************)
(* The program's functions                                                 *)
(***************************************************************************)
NoErr == [type |-> "none", msg |-> "", env |-> ""]
Exc(type, msg) == IF type = "none" THEN NoErr ELSE [type |-> type, msg |-> msg, env |-> ""]

\* `if isinstance(exclude, list)` at line 43
ExcludeIsList(exclude) == exclude.t = "list"

\* `if not isinstance(apps, list)` at line 30
AppsNotList(apps) == apps.t # "list"

\* parse_input(): [exc, entry].  entry is the dict, a function on its keys.
parse_input(e) ==
    LET git_url == EnvGet(e, "INPUT_GIT", "")
        apps_raw == EnvGet(e, "INPUT_APPS", EmptyDoc)
        apps == YamlLoad(apps_raw)
        ref == EnvGet(e, "INPUT_REF", "")
        env == EnvGet(e, "INPUT_ENVIRONMENT", "")
        exclude_raw == EnvGet(e, "INPUT_EXCLUDE_ENV_VARS", EmptyDoc)
        exclude == YamlLoad(exclude_raw)
        e0 == ("git" :> git_url) @@ ("apps" :> apps.v)
        e1 == IF ref # "" THEN ("ref" :> ref) @@ e0 ELSE e0
        e2 == IF env # "" THEN ("environment" :> env) @@ e1 ELSE e1
        e3 == IF exclude_raw # EmptyDoc /\ ExcludeIsList(exclude)
              THEN ("exclude-env-vars" :> exclude.v) @@ e2 ELSE e2
        none == << >>
    IN  IF git_url = "" THEN [exc |-> Exc("ValueError", "'git' input is required"), entry |-> none]
        ELSE IF apps_raw = EmptyDoc
             THEN [exc |-> Exc("ValueError", "'apps' input is required"), entry |-> none]
        ELSE IF apps.t = "raise"
             THEN [exc |-> Exc("YAMLError", "INPUT_APPS"), entry |-> none]
        ELSE IF AppsNotList(apps)
             THEN [exc |-> Exc("ValueError", "'apps' input must be a YAML list"), entry |-> none]
        ELSE IF exclude_raw # EmptyDoc /\ exclude.t = "raise"
             THEN [exc |-> Exc("YAMLError", "INPUT_EXCLUDE_ENV_VARS"), entry |-> none]
        ELSE [exc |-> NoErr, entry |-> e3]

\* entry.get(k, default)
EntryGet(ent, k, default) == IF k \in DOMAIN ent THEN ent[k] ELSE default

\* entry.get(k)
EntryGetOpt(ent, k) == IF k \in DOMAIN ent THEN Some(ent[k]) ELSE None

\* `key in extra` for a list
InList(key, extra) == \E n \in 1..Len(extra) : extra[n] = key

\* _should_exclude without the reserved-prefix test
_should_exclude_NoPrefixes(key, extra) ==
    IF key \in _EXCLUDE_EXACT THEN TRUE
    ELSE ~extra.none /\ InList(key, extra.v)

\* _should_exclude(key, extra)
_should_exclude(key, extra) ==
    IF key \in _EXCLUDE_EXACT THEN TRUE
    ELSE IF \E p \in _EXCLUDE_PREFIXES : StartsWith(key, p) THEN TRUE
    ELSE ~extra.none /\ InList(key, extra.v)

\* a check that never raises
MissingPrefix_NeverRaises(prefix) == FALSE

\* `if not conda_prefix` at line 136
MissingPrefix(prefix) == Falsy(prefix)

\* line 142 without the endswith test: the ambient length is always cut off
new_path_AlwaysCuts(hook_path, current_path) ==
    Take(hook_path, IF Len(hook_path) >= Len(current_path)
                    THEN Len(hook_path) - Len(current_path) ELSE 0)

\* line 142: the part of the hook PATH in front of the ambient PATH
new_path(hook_path, current_path) ==
    IF EndsWith(hook_path, current_path)
    THEN Take(hook_path, Len(hook_path) - Len(current_path))
    ELSE hook_path

\* line 143: the non-empty segments, in order
PathSegments(np) == SelectSeq(Split(np, pathsep), NonEmpty)

\* line 143: path_diff, the segments joined again
PathDiffOf(hook_path, current_path) ==
    Join(PathSegments(new_path(hook_path, current_path)), pathsep)

\* line 147: the dict comprehension keeps the insertion order of env_vars
FilteredEnv(ev, exclude_env_vars) ==
    LET Keep(kv) == ~_should_exclude(kv[1], exclude_env_vars)
    IN  SelectSeq(ev, Keep)

\* line 154
config_path(app) == PathDiv(config_dir, app \o <<".json">>)

\* line 155
exe_path(prefix, app) == PathDiv(PathDiv(Path(prefix), <<"bin">>), app)

\* line 161
link_path(app) == PathDiv(bin_dir, app)

\* line 156
Config(prefix, app, pd, fe) ==
    [exe |-> PathStr(exe_path(prefix, app)), path_diff |-> pd, env |-> fe]

\* json.dumps(config, indent=2): the members in insertion order
json_dumps(config) ==
    << <<"exe", config.exe>>, <<"path_diff", config.path_diff>>, <<"env", config.env>> >>

\* the statement main() and expose_entry() run after each stage
NextStage_SkipsInstall(stage) ==
    CASE stage = "platform" -> "parse_input"
      [] stage = "parse_input" -> "find_pixi"
      [] stage = "find_pixi" -> "ensure_trampoline_bin"
      [] stage = "ensure_trampoline_bin" -> "mkdir"
      [] stage = "mkdir" -> "clone_repo"
      [] stage = "clone_repo" -> "get_shell_hook"
      [] stage = "pixi_install" -> "get_shell_hook"
      [] OTHER -> "delta"

NextStage(stage) ==
    CASE stage = "platform" -> "parse_input"
      [] stage = "parse_input" -> "find_pixi"
      [] stage = "find_pixi" -> "ensure_trampoline_bin"
      [] stage = "ensure_trampoline_bin" -> "mkdir"
      [] stage = "mkdir" -> "clone_repo"
      [] stage = "clone_repo" -> "pixi_install"
      [] stage = "pixi_install" -> "get_shell_hook"
      [] OTHER -> "delta"

\* an exception that is swallowed: the program goes on
AfterStmt_GoesOn(exc, nextpc) == nextpc

\* what becomes of pc after a statement that may raise
AfterStmt(exc, nextpc) == IF exc = "none" THEN nextpc ELSE "failed"

\* the statement the for loop of line 153 reaches with index n
LoopAt(apps, n) == IF n <= Len(apps) THEN "open" ELSE "done"

(***************************************************************************)
(* main() and expose_entry(), one action per statement that can fail       *)
(***************************************************************************)
F0 == [dirs |-> dirs, fs |-> fs, data |-> data]

SetF(G) == dirs' = G.dirs /\ fs' = G.fs /\ data' = G.data

\* the statement ends: with exception `exc` the invocation dies (main catches
\* nothing), otherwise it goes on at `nextpc` and `stage` is complete
Ends(p, stage, exc, nextpc) ==
    /\ pc' = [pc EXCEPT ![p] = AfterStmt(exc.type, nextpc)]
    /\ err' = [err EXCEPT ![p] = exc]
    /\ hist' = [hist EXCEPT ![p] = IF exc.type = "none" THEN Append(@, stage) ELSE @]

\* subprocess.run(..., check=True) and shutil.which: the outcomes of a tool
ToolOutcomes == {"none", "CalledProcessError"}

\* an I/O fault the environment may inject into a filesystem call
Faults == {"none", "OSError"}

apps_of(p) == entry[p]["apps"]

app_at(p) == apps_of(p)[i[p]]

\* one entry of the history `ops`: the call, where its path resolved, what it
\* raised, the record written and the inode opened, written or linked to
Op(p, name, r, path, rec, ino) ==
    [p |-> p, run |-> Len(pending[p]), idx |-> i[p], app |-> app_at(p), op |-> name,
     exc |-> r.exc, res |-> Resolve(F0, path), rec |-> rec, ino |-> ino]

\* the inode os.link would link to
SrcIno(F) ==
    LET r == Resolve(F, get_trampoline_bin)
    IN  IF r.st = "ok" /\ r.loc \in DOMAIN F.fs THEN F.fs[r.loc] ELSE NoFd

\* lines 168-170
MainStart(p) ==
    /\ pc[p] = "main"
    /\ Ends(p, "platform",
            IF EnvGet(osenv[p], "sys.platform", "linux") = "win32"
            THEN Exc("SystemExit", "expose-pixi-apps is not supported on Windows")
            ELSE NoErr,
            NextStage("platform"))
    /\ UNCHANGED <<dirs, fs, data, osenv, pixi_out, locals, ops, snap, pending, prev>>

\* line 172
ParseInput(p) ==
    /\ pc[p] = "parse_input"
    /\ LET r == parse_input(osenv[p]) IN
       /\ entry' = [entry EXCEPT ![p] = r.entry]
       /\ Ends(p, "parse_input", r.exc, NextStage("parse_input"))
    /\ UNCHANGED <<dirs, fs, data, osenv, pixi_out, environment, env_vars, conda_prefix,
                   path_diff, filtered_env, i, fd, ops, snap, pending, prev>>

\* line 173, find_pixi(): shutil.which finds pixi or not
FindPixi(p) ==
    /\ pc[p] = "find_pixi"
    /\ \E found \in BOOLEAN :
         Ends(p, "find_pixi",
              IF found THEN NoErr ELSE Exc("RuntimeError", "pixi not found in PATH"),
              NextStage("find_pixi"))
    /\ UNCHANGED <<dirs, fs, data, osenv, pixi_out, locals, ops, snap, pending, prev>>

\* what `pixi global install coreutils` leaves: the bin layout and the binary
Bootstrapped(F) ==
    LET t == get_trampoline_bin.parts IN
    [dirs |-> F.dirs \cup Ancestors(Parent(t)),
     fs |-> (t :> TrampIno) @@ F.fs,
     data |-> (TrampIno :> Elf) @@ F.data]

\* line 174, ensure_trampoline_bin(pixi)
EnsureTrampolineBin(p) ==
    /\ pc[p] = "ensure_trampoline_bin"
    /\ LET r == Resolve(F0, get_trampoline_bin) IN
       IF r.st = "ok" /\ Exists(F0, r.loc)
       THEN /\ Ends(p, "ensure_trampoline_bin", NoErr, NextStage("ensure_trampoline_bin"))
            /\ UNCHANGED <<dirs, fs, data>>
       ELSE \E out \in ToolOutcomes :
              /\ Ends(p, "ensure_trampoline_bin", Exc(out, "pixi global install"), NextStage("ensure_trampoline_bin"))
              /\ SetF(IF out = "none" THEN Bootstrapped(F0) ELSE F0)
    /\ UNCHANGED <<osenv, pixi_out, locals, ops, snap, pending, prev>>

\* lines 176-177
Mkdir(p) ==
    /\ pc[p] = "mkdir"
    /\ LET r == MkdirP(F0, config_dir) IN
       /\ SetF(r.F)
       /\ Ends(p, "mkdir", Exc(r.exc, "mkdir"), NextStage("mkdir"))
    /\ UNCHANGED <<osenv, pixi_out, locals, ops, snap, pending, prev>>

\* lines 126-127: clone_repo(entry), then `environment`
CloneRepo(p) ==
    /\ pc[p] = "clone_repo"
    /\ snap' = [snap EXCEPT ![p] = F0]
    /\ \E out \in ToolOutcomes :
         /\ Ends(p, "clone_repo", Exc(out, "git clone"), NextStage("clone_repo"))
         /\ environment' = [environment EXCEPT ![p] =
                IF out = "none" THEN EntryGet(entry[p], "environment", "default") ELSE @]
    /\ UNCHANGED <<dirs, fs, data, osenv, pixi_out, entry, env_vars, conda_prefix,
                   path_diff, filtered_env, i, fd, ops, pending, prev>>

\* line 129: pixi_install(pixi, clone_dir, environment)
PixiInstall(p) ==
    /\ pc[p] = "pixi_install"
    /\ \E out \in ToolOutcomes :
         Ends(p, "pixi_install", Exc(out, "pixi install"), NextStage("pixi_install"))
    /\ UNCHANGED <<dirs, fs, data, osenv, pixi_out, locals, ops, snap, pending, prev>>

\* lines 132-133: get_shell_hook(...) and hook['environment_variables']
GetShellHook(p) ==
    /\ pc[p] = "get_shell_hook"
    /\ \E out \in ToolOutcomes :
         /\ Ends(p, "get_shell_hook", Exc(out, "pixi shell-hook"), NextStage("get_shell_hook"))
         /\ env_vars' = [env_vars EXCEPT ![p] = IF out = "none" THEN pixi_out[p] ELSE @]
    /\ UNCHANGED <<dirs, fs, data, osenv, pixi_out, entry, environment, conda_prefix,
                   path_diff, filtered_env, i, fd, ops, snap, pending, prev>>

\* lines 135-151: the CONDA_PREFIX check, path_diff and filtered_env
Delta(p) ==
    /\ pc[p] = "delta"
    /\ LET prefix == DictGetOpt(env_vars[p], K_CONDA_PREFIX)
           hook_path == DictGet(env_vars[p], K_PATH, <<>>)
           current_path == EnvGet(osenv[p], "PATH", <<>>)
           exclude_env_vars == EntryGetOpt(entry[p], "exclude-env-vars")
       IN  /\ conda_prefix' = [conda_prefix EXCEPT ![p] = prefix]
           /\ IF MissingPrefix(prefix)
              THEN /\ Ends(p, "delta",
                           [type |-> "RuntimeError",
                            msg |-> "CONDA_PREFIX not found in shell-hook output for environment",
                            env |-> environment[p]],
                           "failed")
                   /\ UNCHANGED <<path_diff, filtered_env, i>>
              ELSE /\ path_diff' = [path_diff EXCEPT ![p] = PathDiffOf(hook_path, current_path)]
                   /\ filtered_env' = [filtered_env EXCEPT ![p] =
                                          FilteredEnv(env_vars[p], exclude_env_vars)]
                   /\ i' = [i EXCEPT ![p] = 1]
                   /\ Ends(p, "delta", NoErr, LoopAt(apps_of(p), 1))
    /\ UNCHANGED <<dirs, fs, data, osenv, pixi_out, entry, environment, env_vars, fd,
                   ops, snap, pending, prev>>

\* the record of the app the loop is at
config_of(p) == Config(conda_prefix[p].v, app_at(p), path_diff[p], filtered_env[p])

\* line 159, config_path.write_text: open(config_path, 'w')
PubOpen(p) ==
    /\ pc[p] = "open"
    /\ \E fault \in Faults :
         LET r == IF fault = "none" THEN OpenW(F0, config_path(app_at(p)))
                  ELSE [F |-> F0, fd |-> NoFd, exc |-> fault]
         IN  /\ SetF(r.F)
             /\ fd' = [fd EXCEPT ![p] = r.fd]
             /\ ops' = Append(ops, Op(p, "open", r, config_path(app_at(p)), <<>>, r.fd))
             /\ pc' = [pc EXCEPT ![p] = AfterStmt(r.exc, "write")]
             /\ err' = [err EXCEPT ![p] = Exc(r.exc, "write_text")]
    /\ UNCHANGED <<osenv, pixi_out, entry, environment, env_vars, conda_prefix, path_diff,
                   filtered_env, i, hist, snap, pending, prev>>

\* line 159, config_path.write_text: write(json.dumps(config, indent=2)), close
PubWrite(p) ==
    /\ pc[p] = "write"
    /\ \E fault \in Faults, tornOutcome \in BOOLEAN :
         LET rec == json_dumps(config_of(p))
             r == IF fault = "none"
                  THEN [F |-> WriteFd(F0, fd[p], rec, tornOutcome), exc |-> "none"]
                  ELSE [F |-> F0, exc |-> fault]
         IN  /\ SetF(r.F)
             /\ ops' = Append(ops, Op(p, "write", r, config_path(app_at(p)), rec, fd[p]))
             /\ pc' = [pc EXCEPT ![p] = AfterStmt(r.exc, "unlink")]
             /\ err' = [err EXCEPT ![p] = Exc(r.exc, "write_text")]
    /\ fd' = [fd EXCEPT ![p] = NoFd]
    /\ UNCHANGED <<osenv, pixi_out, entry, environment, env_vars, conda_prefix, path_diff,
                   filtered_env, i, hist, snap, pending, prev>>

\* line 162: link_path.unlink(missing_ok=True)
PubUnlink(p) ==
    /\ pc[p] = "unlink"
    /\ \E fault \in Faults :
         LET r == IF fault = "none" THEN Unlink(F0, link_path(app_at(p)))
                  ELSE [F |-> F0, exc |-> fault]
         IN  /\ SetF(r.F)
             /\ ops' = Append(ops, Op(p, "unlink", r, link_path(app_at(p)), <<>>, NoFd))
             /\ pc' = [pc EXCEPT ![p] = AfterStmt(r.exc, "link")]
             /\ err' = [err EXCEPT ![p] = Exc(r.exc, "unlink")]
    /\ UNCHANGED <<osenv, pixi_out, locals, hist, snap, pending, prev>>

\* line 163: os.link(trampoline_bin, link_path), then the next app
PubLink(p) ==
    /\ pc[p] = "link"
    /\ \E fault \in Faults :
         LET r == IF fault = "none" THEN Link(F0, get_trampoline_bin, link_path(app_at(p)))
                  ELSE [F |-> F0, exc |-> fault]
         IN  /\ SetF(r.F)
             /\ ops' = Append(ops, Op(p, "link", r, link_path(app_at(p)), <<>>, SrcIno(F0)))
             /\ pc' = [pc EXCEPT ![p] = AfterStmt(r.exc, LoopAt(apps_of(p), i[p] + 1))]
             /\ err' = [err EXCEPT ![p] = Exc(r.exc, "os.link")]
             /\ i' = [i EXCEPT ![p] = IF r.exc = "none" THEN @ + 1 ELSE @]
    /\ UNCHANGED <<osenv, pixi_out, entry, environment, env_vars, conda_prefix, path_diff,
                   filtered_env, fd, hist, snap, pending, prev>>

\* the workflow runs the action again, with the inputs of its next step
NewRun(p) ==
    /\ pc[p] \in {"done", "failed"}
    /\ pending[p] # <<>>
    /\ prev' = [prev EXCEPT ![p] =
                  [status |-> pc[p], osenv |-> osenv[p], pixi_out |-> pixi_out[p],
                   F |-> F0, err |-> err[p]]]
    /\ osenv' = [osenv EXCEPT ![p] = Head(pending[p]).osenv]
    /\ pixi_out' = [pixi_out EXCEPT ![p] = Head(pending[p]).pixi_out]
    /\ pending' = [pending EXCEPT ![p] = Tail(@)]
    /\ pc' = [pc EXCEPT ![p] = "main"]
    /\ err' = [err EXCEPT ![p] = NoErr]
    /\ hist' = [hist EXCEPT ![p] = <<>>]
    /\ entry' = [entry EXCEPT ![p] = <<>>]
    /\ environment' = [environment EXCEPT ![p] = ""]
    /\ env_vars' = [env_vars EXCEPT ![p] = <<>>]
    /\ conda_prefix' = [conda_prefix EXCEPT ![p] = None]
    /\ path_diff' = [path_diff EXCEPT ![p] = <<>>]
    /\ filtered_env' = [filtered_env EXCEPT ![p] = <<>>]
    /\ i' = [i EXCEPT ![p] = 0]
    /\ UNCHANGED <<dirs, fs, data, fd, ops, snap>>

(***************************************************************************)
(* Inputs explored                                                         *)
(***************************************************************************)
SeqsUpTo(S, n) == UNION {[1..k -> S] : k \in 0..n}

\* executable names: a, b, /a, ./a, ../a, a/, a.json, the empty name, and the
\* absolute path of a's own configuration record without its suffix
NameA == <<"a">>
NameB == <<"b">>
NameAbsA == <<"/", "a">>
NameDotA == <<".", "/", "a">>
NameUpA == <<".", ".", "/", "a">>
NameASlash == <<"a", "/">>
NameAJson == <<"a", ".json">>
NameEmpty == <<>>
NameAbsCfgA == <<"/", "h", "/", "bin", "/", "trampoline_configuration", "/", "a">>
\* /h/bin/trampoline_configuration/a.json as an executable name: its link is
\* the configuration record of a
NameAbsCfgAJson == NameAbsCfgA \o <<".json">>

PlainNames == {NameA, NameB}
OddNames ==
    {NameAbsA, NameDotA, NameUpA, NameASlash, NameAJson, NameEmpty, NameAbsCfgA,
     NameAbsCfgAJson}

K_HOME == <<"H", "O", "M", "E">>
K_FOO == <<"F", "O", "O">>
K_PIXI_FOO == <<"P", "I", "X", "I", "_", "F", "O", "O">>
K_PIXI_ == <<"P", "I", "X", "I", "_">>
K_PIXI == <<"P", "I", "X", "I">>
K_XPIXI_ == <<"X", "P", "I", "X", "I", "_">>

PrefixP == <<"/", "p">>
PrefixQ == <<"/", "q", "/">>

\* captured environments: pixi shell-hook output for two projects, and
\* outputs that lack CONDA_PREFIX or give it empty
HookP ==
    << <<K_PATH, <<"/", "p", "/", "bin", ":", "/", "u">> >>, <<K_CONDA_PREFIX, PrefixP>>,
       <<K_PIXI_FOO, <<"x">> >>, <<K_HOME, <<"/", "r">> >>, <<K_FOO, <<"1">> >> >>
HookQ ==
    << <<K_FOO, <<"2">> >>, <<K_CONDA_PREFIX, PrefixQ>>,
       <<K_PATH, <<"/", "q", "/", "bin", ":", ":", "/", "w">> >> >>
HookNoPrefix ==
    << <<K_PATH, <<"/", "p", "/", "bin", ":", "/", "u">> >>, <<K_FOO, <<"1">> >> >>
HookEmptyPrefix ==
    << <<K_PATH, <<"/", "p", "/", "bin", ":", "/", "u">> >>, <<K_CONDA_PREFIX, <<>> >> >>

AmbientU == <<"/", "u">>

\* partial functions on one key
Opt(k, vals) == {<<>>} \cup {(k :> v) : v \in vals}
Req(k, vals) == {(k :> v) : v \in vals}

SeqDoc(items) == [k |-> "seq", v |-> items]

\* os.environ of an invocation that passes validation
OsEnvs(names, n) ==
    {a @@ b @@ c @@ d @@ e :
        a \in Req("INPUT_GIT", {"https://x/r.git"}),
        b \in Req("INPUT_APPS", {SeqDoc(l) : l \in SeqsUpTo(names, n)}),
        c \in Opt("INPUT_ENVIRONMENT", {"dev"}),
        d \in Opt("INPUT_EXCLUDE_ENV_VARS", {SeqDoc(<<K_HOME>>)}),
        e \in Req("PATH", {AmbientU})}

(***************************************************************************)
(* Initial states                                                          *)
(***************************************************************************)
Loc(p) == p.parts

\* a machine where pixi was never used: only / and /h exist
Fresh == [dirs |-> {<<>>, Loc(get_pixi_home)}, fs |-> <<>>, data |-> <<>>]

\* the layout after `pixi global install` and main's mkdir
Layout == Bootstrapped(Fresh)

OldRecord == json_dumps(Config(<<"/", "o">>, NameA, <<"/", "o", "/", "bin">>, <<>>))

\* the layout with `a` already exposed by an earlier use of the tool
LayoutWithA ==
    [dirs |-> Layout.dirs,
     fs |-> (Loc(config_path(NameA)) :> Ino(Loc(config_path(NameA))))
            @@ (Loc(link_path(NameA)) :> TrampIno) @@ Layout.fs,
     data |-> (Ino(Loc(config_path(NameA))) :> Json(OldRecord, FALSE)) @@ Layout.data]

NoPrev == [status |-> "none", osenv |-> <<>>, pixi_out |-> <<>>, F |-> Fresh, err |-> NoErr]

StageOrder ==
    <<"platform", "parse_input", "find_pixi", "ensure_trampoline_bin", "mkdir",
      "clone_repo", "pixi_install", "get_shell_hook", "delta">>

\* the locals of an invocation that has not started, at the top of main()
AtMain(e, out, more) ==
    [pc |-> "main", osenv |-> e, pixi_out |-> out, entry |-> <<>>, environment |-> "",
     env_vars |-> <<>>, conda_prefix |-> None, path_diff |-> <<>>, filtered_env |-> <<>>,
     i |-> 0, hist |-> <<>>, pending |-> more]

Idle == [AtMain(<<>>, <<>>, <<>>) EXCEPT !.pc = "idle"]

\* an invocation whose stages up to get_shell_hook succeeded (lines 168-133)
AtDelta(e, out) ==
    [AtMain(e, out, <<>>) EXCEPT
        !.pc = "delta",
        !.entry = parse_input(e).entry,
        !.environment = EntryGet(parse_input(e).entry, "environment", "default"),
        !.env_vars = out,
        !.hist = SubSeq(StageOrder, 1, 8)]

\* an invocation that enters the for loop of line 153 (lines 135-151 done)
AtOpen(e, out) ==
    [AtDelta(e, out) EXCEPT
        !.pc = "open",
        !.conda_prefix = DictGetOpt(out, K_CONDA_PREFIX),
        !.path_diff = PathDiffOf(DictGet(out, K_PATH, <<>>), EnvGet(e, "PATH", <<>>)),
        !.filtered_env = FilteredEnv(out, EntryGetOpt(parse_input(e).entry, "exclude-env-vars")),
        !.i = 1,
        !.hist = StageOrder]

\* the state with filesystem F and the invocations P
InitState(F, P) ==
    /\ dirs = F.dirs /\ fs = F.fs /\ data = F.data
    /\ pc = [p \in Procs |-> P[p].pc]
    /\ osenv = [p \in Procs |-> P[p].osenv]
    /\ pixi_out = [p \in Procs |-> P[p].pixi_out]
    /\ entry = [p \in Procs |-> P[p].entry]
    /\ environment = [p \in Procs |-> P[p].environment]
    /\ env_vars = [p \in Procs |-> P[p].env_vars]
    /\ conda_prefix = [p \in Procs |-> P[p].conda_prefix]
    /\ path_diff = [p \in Procs |-> P[p].path_diff]
    /\ filtered_env = [p \in Procs |-> P[p].filtered_env]
    /\ i = [p \in Procs |-> P[p].i]
    /\ fd = [p \in Procs |-> NoFd]
    /\ err = [p \in Procs |-> NoErr]
    /\ hist = [p \in Procs |-> P[p].hist]
    /\ ops = <<>>
    /\ snap = [p \in Procs |-> F]
    /\ pending = [p \in Procs |-> P[p].pending]
    /\ prev = [p \in Procs |-> NoPrev]

\* one invocation; the second process does not run
Alone(r) == [p \in Procs |-> IF p = "p1" THEN r ELSE Idle]

Init ==
    \E F \in {Fresh, Layout, LayoutWithA},
       e \in OsEnvs(PlainNames \cup OddNames, MaxApps),
       out \in {HookP, HookNoPrefix, HookEmptyPrefix} :
        InitState(F, Alone(AtMain(e, out, <<>>)))

Step(p) ==
    \/ MainStart(p)
    \/ ParseInput(p)
    \/ FindPixi(p)
    \/ EnsureTrampolineBin(p)
    \/ Mkdir(p)
    \/ CloneRepo(p)
    \/ PixiInstall(p)
    \/ GetShellHook(p)
    \/ Delta(p)
    \/ PubOpen(p)
    \/ PubWrite(p)
    \/ PubUnlink(p)
    \/ PubLink(p)

Next == \E p \in Procs : Step(p)

\* one invocation of the action, from the top of main()
Spec == Init /\ [][Next]_vars

(***************************************************************************)
(* Properties of one invocation                                            *)
(***************************************************************************)
OpsOf(p) == {n \in 1..Len(ops) : ops[n].p = p /\ ops[n].run = Len(pending[p])}

Wrote(n) == ops[n].op = "write" /\ ops[n].exc = "none"

RecExe(rec) == rec[1][2]
RecPathDiff(rec) == rec[2][2]
RecEnv(rec) == rec[3][2]

RECURSIVE Collapse(_, _)
\* a path's components with every ".." applied to what precedes it
Collapse(done, parts) ==
    IF parts = <<>> THEN done
    ELSE IF Head(parts) = DotDot THEN Collapse(Parent(done), Tail(parts))
    ELSE Collapse(Append(done, Head(parts)), Tail(parts))

\* the path s does not leave the directory d
Within(s, d) ==
    LET e == Collapse(<<>>, Path(s).parts)
        b == Collapse(<<>>, d.parts)
    IN  Path(s).root = d.root /\ Len(e) >= Len(b) /\ SubSeq(e, 1, Len(b)) = b

\* C1: whatever the executable name, the record written for it points at an
\* executable inside <CONDA_PREFIX>/bin (exe is <CONDA_PREFIX>/bin/<name>), and
\* the record is a file of the trampoline_configuration directory
C1_ExeInsideLayout ==
    \A p \in Procs : \A n \in OpsOf(p) :
        Wrote(n) =>
            /\ Within(RecExe(ops[n].rec), PathDiv(Path(conda_prefix[p].v), <<"bin">>))
            /\ Parent(ops[n].res.loc) = Loc(config_dir)

\* the environment the invocation activates
ActivatedEnv(p) == EnvGet(osenv[p], "INPUT_ENVIRONMENT", "default")

HookDone(p) == Len(hist[p]) >= 8 /\ pc[p] # "delta"

\* C4: when the captured environment has no CONDA_PREFIX, the invocation ends
\* in a fatal error naming the environment, with nothing written, removed or
\* linked: the filesystem is as it was when expose_entry was entered
C4_MissingPrefixIsFatal ==
    \A p \in Procs :
        (HookDone(p) /\ K_CONDA_PREFIX \notin DictKeys(pixi_out[p])) =>
            /\ pc[p] = "failed"
            /\ err[p].type = "RuntimeError"
            /\ err[p].env = ActivatedEnv(p)
            /\ F0 = snap[p]
            /\ OpsOf(p) = {}

C4_Witness ==
    \E p \in Procs :
        /\ HookDone(p) /\ K_CONDA_PREFIX \notin DictKeys(pixi_out[p])
        /\ pc[p] = "failed" /\ err[p].env = "dev"
        /\ Loc(link_path(NameA)) \in DOMAIN fs

IsPrefixOf(s, t) == Len(s) <= Len(t) /\ SubSeq(t, 1, Len(s)) = s

\* the statement that follows the stages completed so far
PcAfter(h) == IF Len(h) < Len(StageOrder) THEN
                 (IF Len(h) = 0 THEN "main" ELSE StageOrder[Len(h) + 1])
              ELSE "publish"

Publishing(p) == pc[p] \in {"open", "write", "unlink", "link", "done"}

\* C8: the stages run in the fixed order, each after the previous one has
\* completed; a stage that fails ends the invocation there; and nothing is
\* written, removed or linked unless every earlier stage succeeded
C8_StagesInOrder ==
    \A p \in Procs : pc[p] # "idle" =>
        /\ IsPrefixOf(hist[p], StageOrder)
        /\ err[p] = NoErr => pc[p] = PcAfter(hist[p]) \/ (PcAfter(hist[p]) = "publish" /\ Publishing(p))
        /\ err[p] # NoErr => pc[p] = "failed" /\ ~ENABLED Step(p)
        /\ OpsOf(p) # {} => hist[p] = StageOrder
        /\ \A n \in OpsOf(p) : \A m \in OpsOf(p) : ~(n < m /\ ops[n].exc # "none")

C8_Witness ==
    \E p \in Procs :
        /\ pc[p] = "failed" /\ hist[p] = SubSeq(StageOrder, 1, 6) /\ OpsOf(p) = {}
        /\ Len(apps_of(p)) > 0

\* the keys the filtering policy suppresses for an invocation
Suppressed(p) ==
    {k \in DictKeys(pixi_out[p]) :
        \/ k = <<"P", "A", "T", "H">>
        \/ (Len(k) >= 5 /\ SubSeq(k, 1, 5) = <<"P", "I", "X", "I", "_">>)
        \/ ("exclude-env-vars" \in DOMAIN entry[p]
            /\ k \in {entry[p]["exclude-env-vars"][n] :
                        n \in 1..Len(entry[p]["exclude-env-vars"])})}

\* e holds exactly the pairs of d whose keys are not in K, in d's order
IsRestriction(e, d, K) ==
    /\ \A n \in 1..Len(e) : e[n][1] \notin K
    /\ {e[n] : n \in 1..Len(e)} = {d[n] : n \in 1..Len(d)} \ {kv \in {d[n] : n \in 1..Len(d)} : kv[1] \in K}
    /\ Len(e) = Cardinality({d[n] : n \in 1..Len(d)} \ {kv \in {d[n] : n \in 1..Len(d)} : kv[1] \in K})
    /\ \A a, b \in 1..Len(e) :
          a < b => \E x, y \in 1..Len(d) : x < y /\ d[x] = e[a] /\ d[y] = e[b]

\* C2: the env of every record written has no PATH, no PIXI_* key and no key
\* of the entry's exclude-env-vars, and has every other captured variable with
\* its value: it is the captured environment minus the suppressed keys
C2_EnvIsFiltered ==
    \A p \in Procs : \A n \in OpsOf(p) :
        Wrote(n) => IsRestriction(RecEnv(ops[n].rec), pixi_out[p], Suppressed(p))

C2_Witness ==
    \E p \in Procs : \E n \in OpsOf(p) :
        /\ Wrote(n)
        /\ Len(RecEnv(ops[n].rec)) >= 2
        /\ Cardinality(Suppressed(p)) >= 3
        /\ "exclude-env-vars" \in DOMAIN entry[p]

\* the call ops[n] of an invocation failed
Failed(n) == ops[n].exc # "none"

\* a later call of the same invocation, up to call k, acts on what call n left:
\* it opens or writes the same inode, or unlinks the same location
Retargeted(p, n, k) ==
    \E m \in OpsOf(p) :
        /\ n < m /\ m <= k /\ ops[m].exc = "none"
        /\ \/ ops[m].op \in {"open", "write"} /\ ops[m].ino = ops[n].ino
           \/ ops[m].op = "unlink" /\ ops[m].res = ops[n].res

\* what call n left is still in place
InPlace(n) ==
    /\ ops[n].res.loc \in DOMAIN fs
    /\ fs[ops[n].res.loc] = ops[n].ino
    /\ ops[n].op = "write" => data[ops[n].ino] = Json(ops[n].rec, FALSE)

\* C9: after a failure at the k-th executable, the record and the
\* link of every earlier executable are in place as published, and nothing was
\* done for a later executable
C9_EarlierAllRemain ==
    \A p \in Procs : \A k \in OpsOf(p) :
        Failed(k) =>
            /\ \A n \in OpsOf(p) :
                 (ops[n].idx < ops[k].idx /\ ops[n].exc = "none" /\ ops[n].op \in {"write", "link"})
                    => InPlace(n)
            /\ \A m \in OpsOf(p) : m <= k /\ ops[m].idx <= ops[k].idx

\* C9, for the earlier executables no later one targets again: after a failure
\* at the k-th executable the invocation has ended in a fatal error; the record
\* and the link of every earlier executable that no later executable of the
\* list, up to the k-th, wrote or unlinked again are in place as published;
\* and nothing was done for a later executable
C9_UntouchedRemain ==
    \A p \in Procs : \A k \in OpsOf(p) :
        Failed(k) =>
            /\ \A n \in OpsOf(p) :
                 (/\ ops[n].idx < ops[k].idx /\ ops[n].exc = "none"
                  /\ ops[n].op \in {"write", "link"}
                  /\ ~Retargeted(p, n, k))
                    => InPlace(n)
            /\ \A m \in OpsOf(p) : m <= k /\ ops[m].idx <= ops[k].idx
            /\ pc[p] = "failed"

C9_Witness ==
    \E p \in Procs : \E k \in OpsOf(p) :
        /\ Failed(k) /\ ops[k].idx = 2 /\ ops[k].op = "link"
        /\ apps_of(p)[1] # apps_of(p)[2]
        /\ \E n \in OpsOf(p) : ops[n].idx = 1 /\ ops[n].op = "link" /\ ~Retargeted(p, n, k) /\ InPlace(n)
        /\ \E n \in OpsOf(p) : ops[n].idx = 1 /\ ops[n].op = "write" /\ ~Retargeted(p, n, k) /\ InPlace(n)

(***************************************************************************)
(* parse_input over the declarative inputs                                 *)
(***************************************************************************)
AppsDocs ==
    {EmptyDoc, SeqDoc(<<>>), SeqDoc(<<NameA>>), SeqDoc(<<NameA, NameB>>),
     [k |-> "scalar", v |-> <<>>], [k |-> "null", v |-> <<>>],
     [k |-> "map", v |-> <<>>], [k |-> "bad", v |-> <<>>]}

ExcludeDocs ==
    {EmptyDoc, SeqDoc(<<>>), SeqDoc(<<K_HOME>>),
     [k |-> "scalar", v |-> <<>>], [k |-> "null", v |-> <<>>],
     [k |-> "map", v |-> <<>>], [k |-> "bad", v |-> <<>>]}

RawInputs ==
    {a @@ b @@ c @@ d @@ e @@ f :
        a \in Opt("INPUT_GIT", {"", "https://x/r.git"}),
        b \in Opt("INPUT_APPS", AppsDocs),
        c \in Opt("INPUT_REF", {"", "v1"}),
        d \in Opt("INPUT_ENVIRONMENT", {"", "dev"}),
        e \in Opt("INPUT_EXCLUDE_ENV_VARS", ExcludeDocs),
        f \in Opt("sys.platform", {"win32"})}

InitParse == \E e \in RawInputs : InitState(Fresh, Alone(AtMain(e, HookP, <<>>)))

NextParse == \E p \in Procs : MainStart(p) \/ ParseInput(p)

\* main() up to the return of parse_input, over every shape of the inputs
SpecParse == InitParse /\ [][NextParse]_vars

\* an input is absent when it is unset or empty
AbsentStr(e, k) == k \notin DOMAIN e \/ e[k] = ""
AbsentDoc(e, k) == k \notin DOMAIN e \/ e[k].k = "empty"

IsSeqDoc(doc) == doc.k = "seq"

\* the inputs the Entry model rejects
Malformed(e) ==
    \/ AbsentStr(e, "INPUT_GIT")
    \/ AbsentDoc(e, "INPUT_APPS")
    \/ ~IsSeqDoc(e["INPUT_APPS"])
    \/ e["INPUT_APPS"].v = <<>>
    \/ (~AbsentDoc(e, "INPUT_EXCLUDE_ENV_VARS") /\ ~IsSeqDoc(e["INPUT_EXCLUDE_ENV_VARS"]))

Validated(p) == Len(hist[p]) >= 1 /\ pc[p] # "parse_input"

\* C5: parse_input fails, and yields no Entry, when git is absent, apps is
\* absent, empty or not a sequence, or exclude-env-vars is given and is not a
\* sequence; in every other case it returns an Entry
C5_RejectsMalformed ==
    \A p \in Procs : Validated(p) =>
        IF Malformed(osenv[p])
        THEN pc[p] = "failed" /\ err[p] # NoErr /\ entry[p] = <<>>
        ELSE pc[p] = "find_pixi" /\ err[p] = NoErr /\ {"git", "apps"} \subseteq DOMAIN entry[p]

(***************************************************************************)
(* The delta engine and the publisher over captured environments           *)
(***************************************************************************)
NextPub ==
    \E p \in Procs :
        \/ Delta(p)
        \/ PubOpen(p)
        \/ PubWrite(p)
        \/ PubUnlink(p)
        \/ PubLink(p)

\* longest ambient PATH explored
MaxAmbientLen == 2

PathChars == {"x", "y", ":"}

PathStrings(n) == SeqsUpTo(PathChars, n)

OneApp(path) ==
    ("INPUT_GIT" :> "https://x/r.git") @@ ("INPUT_APPS" :> SeqDoc(<<NameA>>))
        @@ ("PATH" :> path)

InitPath ==
    \E H \in PathStrings(MaxPathLen), A \in PathStrings(MaxAmbientLen) :
        InitState(Layout, Alone(AtDelta(OneApp(A),
                    << <<K_PATH, H>>, <<K_CONDA_PREFIX, PrefixP>> >>)))

\* expose_entry from line 135 on, over hook PATH and ambient PATH values
SpecPath == InitPath /\ [][NextPub]_vars

\* the hook PATH without the trailing ambient PATH, when it ends with it
Region(H, A) ==
    IF \E n \in 0..Len(H) : SubSeq(H, n + 1, Len(H)) = A
    THEN SubSeq(H, 1, Len(H) - Len(A))
    ELSE H

\* where the maximal separator-free runs of r start
RunStarts(r) == {a \in 1..Len(r) : r[a] # ":" /\ (a = 1 \/ r[a - 1] = ":")}

RunEnd(r, a) ==
    CHOOSE b \in a..Len(r) :
        /\ \A c \in a..b : r[c] # ":"
        /\ (b = Len(r) \/ r[b + 1] = ":")

\* the maximal separator-free runs of r, in their order
Runs(r) ==
    [k \in 1..Cardinality(RunStarts(r)) |->
        LET a == CHOOSE x \in RunStarts(r) :
                    Cardinality({y \in RunStarts(r) : y < x}) = k - 1
        IN  SubSeq(r, a, RunEnd(r, a))]

NoEmptySegment(s) ==
    s = <<>> \/ (/\ s[1] # ":" /\ s[Len(s)] # ":"
                 /\ \A n \in 1..(Len(s) - 1) : ~(s[n] = ":" /\ s[n + 1] = ":"))

HookPath(p) == DictGet(pixi_out[p], <<"P", "A", "T", "H">>, <<>>)
AmbientPath(p) == EnvGet(osenv[p], "PATH", <<>>)

\* C3: the published path_diff holds, in order and once each, the non-empty
\* segments of the hook PATH with the trailing ambient PATH removed when it
\* ends with it, and of the whole hook PATH otherwise
C3_PathDiffSegments ==
    \A p \in Procs : \A n \in OpsOf(p) :
        Wrote(n) =>
            /\ NoEmptySegment(RecPathDiff(ops[n].rec))
            /\ Runs(RecPathDiff(ops[n].rec)) = Runs(Region(HookPath(p), AmbientPath(p)))

C3_Witness ==
    \E p \in Procs : \E n \in OpsOf(p) :
        /\ Wrote(n)
        /\ HookPath(p) = <<"x", ":", "y", "y">>
        /\ AmbientPath(p) = <<"y">>
        /\ RecPathDiff(ops[n].rec) = <<"x", ":", "y">>

K_CP == K_CONDA_PREFIX

\* captured variables, CONDA_PREFIX among them
CapturedPairs ==
    << <<K_PATH, <<"/", "p", "/", "bin">> >>, <<K_PIXI_FOO, <<"x">> >>, <<K_HOME, <<"/", "r">> >>,
       <<K_CP, PrefixP>>, <<K_PIXI_, <<>> >>, <<K_PIXI, <<"y">> >>, <<K_XPIXI_, <<"z">> >>,
       <<K_FOO, <<"1">> >> >>

Reverse(q) == [n \in 1..Len(q) |-> q[Len(q) + 1 - n]]

Pick(q, K) == LET In(kv) == kv[1] \in K IN SelectSeq(q, In)

CapturedEnvs ==
    {Pick(q, K \cup {K_CP}) :
        q \in {CapturedPairs, Reverse(CapturedPairs)},
        K \in SUBSET {K_PATH, K_PIXI_FOO, K_HOME, K_PIXI_, K_PIXI, K_XPIXI_, K_FOO}}

FilterInputs ==
    {a @@ b @@ c @@ d :
        a \in Req("INPUT_GIT", {"https://x/r.git"}),
        b \in Req("INPUT_APPS", {SeqDoc(<<NameA>>)}),
        c \in Opt("INPUT_EXCLUDE_ENV_VARS",
                  {SeqDoc(<<>>), SeqDoc(<<K_HOME>>), SeqDoc(<<K_FOO, K_HOME>>),
                   SeqDoc(<<K_PIXI, K_PATH>>), [k |-> "scalar", v |-> <<>>]}),
        d \in Req("PATH", {AmbientU})}

InitFilter ==
    \E e \in FilterInputs, out \in CapturedEnvs :
        InitState(Layout, Alone(AtDelta(e, out)))

\* expose_entry from line 135 on, over captured environments and exclusions
SpecFilter == InitFilter /\ [][NextPub]_vars

(***************************************************************************)
(* Two invocations, one after the other                                    *)
(***************************************************************************)
TwiceNames == {NameA, NameB, NameAbsCfgA, NameAbsCfgAJson}

Apps(l) ==
    ("INPUT_GIT" :> "https://x/r.git") @@ ("INPUT_APPS" :> SeqDoc(l)) @@ ("PATH" :> AmbientU)

InitTwice ==
    \E l1, l2 \in SeqsUpTo(TwiceNames, MaxApps), out2 \in {HookP, HookQ} :
        InitState(Layout,
                  Alone(AtMain(Apps(l1), HookP, <<[osenv |-> Apps(l2), pixi_out |-> out2]>>)))

NextTwice == Next \/ \E p \in Procs : NewRun(p)

\* the action run twice by one workflow
SpecTwice == InitTwice /\ [][NextTwice]_vars

\* the invocation is in its second run and the first one succeeded
SecondRun(p) == prev[p].status = "done" /\ pending[p] = <<>>

SameInputs(p) ==
    /\ prev[p].osenv = osenv[p]
    /\ prev[p].pixi_out = pixi_out[p]
    /\ SrcIno(prev[p].F) = SrcIno(F0)

\* the file at path in filesystem F: its inode and content, or nothing
FileAt(F, path) ==
    LET r == Resolve(F, path)
    IN  IF r.st = "ok" /\ r.loc \in DOMAIN F.fs
        THEN [there |-> TRUE, ino |-> F.fs[r.loc], content |-> F.data[F.fs[r.loc]]]
        ELSE [there |-> FALSE, ino |-> NoFd, content |-> Empty]

InputApps(e) == e["INPUT_APPS"].v

ListItems(l) == {l[n] : n \in 1..Len(l)}

\* exceptions that come from the environment of the run, not from what the
\* first run left on disk
External == {"OSError", "CalledProcessError", "RuntimeError"}

\* C6: a second run with the same entry, captured environment, ambient PATH
\* and dispatch binary leaves, for every name, the same configuration file and
\* a link to the same inode as the first run did, and does not fail because
\* the record and the link already exist
C6_Idempotent ==
    \A p \in Procs : (SecondRun(p) /\ SameInputs(p)) =>
        /\ pc[p] = "done" =>
              \A a \in ListItems(InputApps(osenv[p])) :
                 /\ FileAt(F0, config_path(a)) = FileAt(prev[p].F, config_path(a))
                 /\ FileAt(F0, config_path(a)).there
                 /\ FileAt(F0, link_path(a)).there
                 /\ FileAt(F0, link_path(a)).ino = FileAt(prev[p].F, link_path(a)).ino
                 /\ FileAt(F0, link_path(a)).ino = SrcIno(F0)
        /\ pc[p] = "failed" => err[p].type \in External

C6_Witness ==
    \E p \in Procs :
        /\ SecondRun(p) /\ SameInputs(p) /\ pc[p] = "done"
        /\ InputApps(osenv[p]) = <<NameA, NameB>>

\* the record the current run builds for name a
RecordOf(p, a) == json_dumps(Config(conda_prefix[p].v, a, path_diff[p], filtered_env[p]))

\* C7: when both runs expose a name, after the second run its configuration
\* file is exactly the record the second run built for it, and its link exists
C7_LastWriteWins ==
    \A p \in Procs : (SecondRun(p) /\ pc[p] = "done") =>
        \A a \in ListItems(InputApps(osenv[p])) \cap ListItems(InputApps(prev[p].osenv)) :
            /\ FileAt(F0, config_path(a)).there
            /\ FileAt(F0, config_path(a)).content = Json(RecordOf(p, a), FALSE)
            /\ FileAt(F0, link_path(a)).there

(***************************************************************************)
(* Two invocations at the same time                                        *)
(***************************************************************************)
InitConc ==
    \E F \in {Layout, LayoutWithA},
       l1 \in {<<NameA>>, <<NameB, NameA>>}, l2 \in {<<NameA>>, <<NameA, NameB>>} :
        InitState(F, [p \in Procs |-> IF p = "p1" THEN AtOpen(Apps(l1), HookP)
                                                   ELSE AtOpen(Apps(l2), HookQ)])

NextConc ==
    \E p \in Procs :
        \/ PubOpen(p)
        \/ PubWrite(p)
        \/ PubUnlink(p)
        \/ PubLink(p)

\* two invocations in their publishing loops, their calls interleaved
SpecConc == InitConc /\ [][NextConc]_vars

Terminated == \A p \in Procs : pc[p] \in {"done", "failed"}

NoFault == \A n \in 1..Len(ops) : ops[n].exc # "OSError"

SharedNames == ListItems(apps_of("p1")) \cap ListItems(apps_of("p2"))

\* the last write to the inode
LastWrite(ino) ==
    CHOOSE n \in 1..Len(ops) :
        /\ Wrote(n) /\ ops[n].ino = ino
        /\ \A m \in 1..Len(ops) : (Wrote(m) /\ ops[m].ino = ino) => m <= n

Linked(a) == \E n \in 1..Len(ops) : ops[n].op = "link" /\ ops[n].exc = "none" /\ ops[n].app = a

\* C10: whatever the interleaving, both invocations complete; once both are
\* finished the configuration file of a shared name is the complete record of
\* the invocation that wrote it last and its link is present; and the link of
\* a published name is missing only between an unlink and the next link
C10_LastWriterWins ==
    NoFault =>
        /\ Terminated =>
             /\ \A p \in Procs : pc[p] = "done"
             /\ \A a \in SharedNames :
                   /\ FileAt(F0, link_path(a)).there
                   /\ FileAt(F0, config_path(a)).there
                   /\ FileAt(F0, config_path(a)).content
                        = Json(ops[LastWrite(FileAt(F0, config_path(a)).ino)].rec, FALSE)
        /\ \A a \in SharedNames :
             (Linked(a) /\ ~FileAt(F0, link_path(a)).there)
                => \E p \in Procs : pc[p] = "link" /\ app_at(p) = a

====
